---- MODULE Spec2Model ----
(***************************************************************************)
(* CheapWatch (src/CheapWatch.js): a recursive directory watcher.  The     *)
(* model keeps the instance's fields, the file tree it watches, the host's *)
(* timers, and the position of every asynchronous function at its awaits.  *)
(* Strings are sequences of one-character strings, so that slice,          *)
(* startsWith and '+' are computed as JavaScript computes them.            *)
(***************************************************************************)
EXTENDS Naturals, Sequences, FiniteSets

\* Number of changes made to the file tree after init() was called.
MaxDiskOps == 2

----------------------------------------------------------------------------
\* Strings

Sep == <<"/">>

\* this[_dir]: the root directory given to the constructor.
Dir == <<"r">>

\* The names a directory entry can have in the modelled tree.
NameA == <<"a">>
NameAS == <<"a", "s">>
NameX == <<"x">>
Names == {NameA, NameAS, NameX}

\* full + '/' + sub  (lines 104 and 111)
Join(full, sub) == full \o Sep \o sub

\* full.slice(this[_dir].length + 1)  (lines 88 and 133)
Slice(full) == SubSeq(full, Len(Dir) + 2, Len(full))

\* A prefix test that leaves the last character of pre, the separator, out.
StartsWith_loose(s, pre) ==
  Len(s) >= Len(pre) - 1 /\ SubSeq(s, 1, Len(pre) - 1) = SubSeq(pre, 1, Len(pre) - 1)

\* s.startsWith(pre)
StartsWith(s, pre) == Len(pre) <= Len(s) /\ SubSeq(s, 1, Len(pre)) = pre

\* s.includes(c) for a one-character c
Includes(s, c) == \E i \in 1..Len(s) : s[i] = c

\* Absolute paths of the modelled tree below the root: r/a, r/a/x, r/as, r/as/x.
TopFulls == {Join(Dir, NameA), Join(Dir, NameAS)}
Fulls == TopFulls \cup {Join(f, NameX) : f \in TopFulls}

\* Keys of this[_paths] and this[_watchers]: relative paths; '' is the root.
Keys == {Slice(f) : f \in Fulls \cup {Dir}}

\* The file system's view of a path: its parent directory and its entries.
ParentOf(f) == CHOOSE pd \in Fulls \cup {Dir} : \E pn \in Names : f = Join(pd, pn)
NameOf(f) == CHOOSE nn \in Names : f = Join(ParentOf(f), nn)
ChildrenOf(d) == {f \in Fulls : \E n \in Names : f = Join(d, n)}
Below(d) == {f \in Fulls : StartsWith(f, d \o Sep)}

Types == {"file", "dir"}

\* The paths of the modelled tree that can hold a directory: r/a, r/as, r/a/x.
DirFulls == TopFulls \cup {Join(Join(Dir, NameA), NameX)}

VARIABLES
  watchOpt,       \* this[_watch]
  filterOpt,      \* this[_filter]: "none" (undefined) or "test" (src/test.js:102)
  disk,           \* the file tree: absolute path -> "none" | "file" | "dir"
  ops,            \* number of changes made to the tree so far
  paths,          \* this[_paths]: relative path -> stats ("none": no entry)
  watchers,       \* this[_watchers]: relative path -> handle state ("none": no entry)
  timeouts,       \* this[_timeouts]: the absolute paths that have an entry
  timers,         \* the host's outstanding setTimeout timers, per absolute path
  queue,          \* this[_queue]
  isProcessing,   \* this[_isProcessing]
  isInitStarted,  \* this[_isInitStarted]
  isClosed,       \* this[_isClosed]
  thisPaths,      \* whether this.paths has been assigned (line 69)
  tasks,          \* the pending _recurse calls: [full, pc]
  walk,           \* who awaits the running _recurse tree
  dpc,            \* position of the _enqueue drain loop
  cur,            \* the entry the drain loop has shifted (<<>>: none)
  emitted,        \* the events emitted by the last step, in order
  thrown,         \* the error thrown or rejected in the last step ("": none)
  called,         \* the public method called in the last step ("": none)
  changedAfterClose  \* the paths changed on disk after close() returned

vars == <<watchOpt, filterOpt, disk, ops, paths, watchers, timeouts, timers, queue,
          isProcessing, isInitStarted, isClosed, thisPaths, tasks, walk, dpc, cur,
          emitted, thrown, called, changedAfterClose>>

config == <<watchOpt, filterOpt>>
drain == <<queue, isProcessing, dpc, cur>>

----------------------------------------------------------------------------
\* The file tree

IsDir(tree, full) == IF full = Dir THEN TRUE ELSE tree[full] = "dir"

\* A tree: an entry exists only inside a directory.
ValidDisk(tree) == \A f \in Fulls : tree[f] # "none" => IsDir(tree, ParentOf(f))

\* The trees the watcher is constructed on: any tree with files at depth two
\* (a directory at depth two arrives later, by Create).
InitTrees == {tree \in [Fulls -> Types \cup {"none"}] :
                ValidDisk(tree) /\ \A f \in Fulls : tree[f] = "dir" => f \in TopFulls}

\* statAsync(full): "none" stands for a rejected promise.
Stat(full) == IF full = Dir THEN "dir" ELSE disk[full]

\* readdirAsync(full), for a full that is a directory.
Readdir(full) == {NameOf(f) : f \in {g \in ChildrenOf(full) : disk[g] # "none"}}

----------------------------------------------------------------------------
\* The filter of src/test.js, with 'skip-file' written "f" and
\* 'skip-directory' written "s".
TestFilter(path, stats) ==
  \/ stats = "file" /\ ~Includes(path, "f")
  \/ stats = "dir" /\ ~Includes(path, "s")

\* A walk that consults no filter.
RecurseRejects_never(path, stats) == FALSE

\* _recurse, line 91: this[_filter] && !await this[_filter]({ path, stats })
RecurseRejects(path, stats) == filterOpt # "none" /\ ~TestFilter(path, stats)

\* A drain loop that consults no filter.
EnqueueRejects_never(path, stats) == FALSE

\* _enqueue, line 136: this[_filter] && !await this[_filter]({ path, stats })
EnqueueRejects(path, stats) == filterOpt # "none" /\ ~TestFilter(path, stats)

----------------------------------------------------------------------------
\* Events

\* this.emit('+', { path, stats, isNew })
Plus(path, stats, isNew) == [kind |-> "+", path |-> path, stats |-> stats, isNew |-> isNew]

\* this.emit('-', { path, stats })
Minus(path, stats) == [kind |-> "-", path |-> path, stats |-> stats]

\* The elements of a finite set, one after the other.
RECURSIVE SeqOf(_)
SeqOf(S) == IF S = {} THEN <<>> ELSE LET x == CHOOSE y \in S : TRUE IN <<x>> \o SeqOf(S \ {x})

\* Lines 148-152: a '+' event, isNew, for every entry of the table under path.
NewUnder(tbl, path) ==
  SeqOf({Plus(q, tbl[q], TRUE) : q \in {k \in Keys : tbl[k] # "none" /\ StartsWith(k, path \o Sep)}})

\* Lines 167-173: a '-' event for every entry of the table under path.
OldUnder(tbl, path) ==
  SeqOf({Minus(q, tbl[q]) : q \in {k \in Keys : tbl[k] # "none" /\ StartsWith(k, path \o Sep)}})

----------------------------------------------------------------------------
\* Debounce timers

\* clearTimeout(id), for the id this[_timeouts] holds for full.
ClearTimeout(tm, full) == IF tm[full] > 0 THEN [tm EXCEPT ![full] = @ - 1] ELSE tm

\* _handle(dir, event, file), on st = [timeouts, timers].
Handle(st, dir, file) ==
  LET full == Join(dir, file)
      t1 == IF full \in st.timeouts THEN ClearTimeout(st.timers, full) ELSE st.timers
  IN [timeouts |-> st.timeouts \cup {full}, timers |-> [t1 EXCEPT ![full] = @ + 1]]

\* The native watch of directory d is registered and delivers its events:
\* fs.watch of line 100, open, on the directory now on disk.
Watched(d) == watchers[Slice(d)] = "open"

\* The changed entries whose parent directory has a delivering watch.
Notified(S) == {g \in S : Watched(ParentOf(g))}

\* One call of the watch callback, this[_handle].bind(this, dir), per changed entry.
RECURSIVE HandleAll(_, _)
HandleAll(st, S) ==
  IF S = {} THEN st
  ELSE LET g == CHOOSE x \in S : TRUE
       IN HandleAll(Handle(st, ParentOf(g), NameOf(g)), S \ {g})

Notify(S) ==
  LET st == HandleAll([timeouts |-> timeouts, timers |-> timers], Notified(S))
  IN timeouts' = st.timeouts /\ timers' = st.timers

----------------------------------------------------------------------------
\* The drain loop of _enqueue

\* A drain loop that never raises the in-progress flag (no line 130).
DrainNext_unflagged(q) ==
  IF q = <<>>
  THEN queue' = q /\ isProcessing' = FALSE /\ dpc' = "idle" /\ cur' = <<>>
  ELSE queue' = Tail(q) /\ isProcessing' = FALSE /\ dpc' = "stat" /\ cur' = Head(q)

\* Line 131, reached after an entry was handled: shift the next entry (line 132)
\* and stat it, or leave the loop and clear the flag (line 177).
DrainNext(q) ==
  IF q = <<>>
  THEN queue' = q /\ isProcessing' = FALSE /\ dpc' = "idle" /\ cur' = <<>>
  ELSE queue' = Tail(q) /\ isProcessing' = TRUE /\ dpc' = "stat" /\ cur' = Head(q)

\* Line 127: !this[_paths].  The Map of line 49 is an object, so this is false
\* whether or not init() has finished.
PathsUnset == FALSE

----------------------------------------------------------------------------
\* _recurse

\* Line 90: if (path)
NotRoot(path) == path # <<>>

\* A walk that registers a watch whatever the option says.
ShouldWatch_always == TRUE

\* Line 97: if (this[_watch])
ShouldWatch == watchOpt

\* What follows a step of a _recurse call, in the function that awaits the
\* whole tree of calls: init() (lines 68-69) or _enqueue (lines 147-153).
\* Promise.all rejects with the first rejection and leaves the other calls
\* running, with nobody awaiting them.
WalkStep(T2, failed, P2) ==
  /\ tasks' = T2
  /\ CASE walk = "init" /\ failed ->
            /\ walk' = "zombie"
            /\ thrown' = "init rejected"
            /\ emitted' = <<>>
            /\ UNCHANGED <<thisPaths, drain>>
       [] walk = "init" /\ ~failed /\ T2 = {} ->
            /\ walk' = "none"
            /\ thisPaths' = TRUE
            /\ thrown' = ""
            /\ emitted' = <<>>
            /\ UNCHANGED drain
       [] walk = "drain" /\ failed ->
            /\ walk' = "zombie"
            /\ dpc' = "dead"
            /\ thrown' = "_enqueue rejected"
            /\ emitted' = <<>>
            /\ UNCHANGED <<thisPaths, queue, isProcessing, cur>>
       [] walk = "drain" /\ ~failed /\ T2 = {} ->
            /\ walk' = "none"
            /\ emitted' = NewUnder(P2, Slice(cur))
            /\ thrown' = ""
            /\ DrainNext(queue)
            /\ UNCHANGED thisPaths
       [] OTHER ->
            /\ thrown' = ""
            /\ emitted' = <<>>
            /\ UNCHANGED <<walk, thisPaths, drain>>

\* Lines 88-102: statAsync(full) has settled.
RecStat(t) ==
  /\ t \in tasks
  /\ t.pc = "stat"
  /\ LET full == t.full
         path == Slice(full)
         stats == Stat(full)
         failed == stats = "none"
         kept == ~failed /\ ~(NotRoot(path) /\ RecurseRejects(path, stats))
         isdir == kept /\ stats = "dir"
         P2 == IF kept /\ NotRoot(path) THEN [paths EXCEPT ![path] = stats] ELSE paths
         rest == tasks \ {t}
     IN /\ paths' = P2
        /\ watchers' = IF isdir /\ ShouldWatch
                       THEN [watchers EXCEPT ![path] = "open"] ELSE watchers
        /\ WalkStep(IF isdir THEN rest \cup {[full |-> full, pc |-> "readdir"]} ELSE rest,
                    failed, P2)
  /\ called' = ""
  /\ UNCHANGED <<config, disk, ops, timeouts, timers, isInitStarted, isClosed,
                 changedAfterClose>>

\* Lines 103-105: readdirAsync(full) has settled; one _recurse call per entry.
RecReaddir(t) ==
  /\ t \in tasks
  /\ t.pc = "readdir"
  /\ LET full == t.full
         failed == Stat(full) # "dir"
         rest == tasks \ {t}
         subs == IF failed THEN {} ELSE Readdir(full)
     IN WalkStep(rest \cup {[full |-> Join(full, sub), pc |-> "stat"] : sub \in subs},
                 failed, paths)
  /\ called' = ""
  /\ UNCHANGED <<config, disk, ops, paths, watchers, timeouts, timers, isInitStarted,
                 isClosed, changedAfterClose>>

----------------------------------------------------------------------------
\* _handle's timer and _enqueue

\* Lines 117-120 and 125-132: a timer expires.
TimerFire(full) ==
  /\ timers[full] > 0
  /\ timers' = [timers EXCEPT ![full] = @ - 1]
  /\ timeouts' = timeouts \ {full}
  /\ LET q == Append(queue, full)
     IN IF isProcessing \/ PathsUnset
        THEN queue' = q /\ UNCHANGED <<isProcessing, dpc, cur>>
        ELSE DrainNext(q)
  /\ emitted' = <<>>
  /\ thrown' = ""
  /\ called' = ""
  /\ UNCHANGED <<config, disk, ops, paths, watchers, isInitStarted, isClosed, thisPaths,
                 tasks, walk, changedAfterClose>>

\* Lines 154-175: the entry is gone.
Removed(path) ==
  IF paths[path] = "none"
  THEN /\ emitted' = <<>>
       /\ UNCHANGED <<paths, watchers>>
  ELSE LET P1 == [paths EXCEPT ![path] = "none"]
           hit(k) == k = path \/ StartsWith(k, path \o Sep)
       IN IF watchers[path] # "none"
          THEN /\ watchers' = [k \in Keys |-> IF hit(k) THEN "none" ELSE watchers[k]]
               /\ paths' = [k \in Keys |->
                              IF StartsWith(k, path \o Sep) THEN "none" ELSE P1[k]]
               /\ emitted' = <<Minus(path, paths[path])>> \o OldUnder(P1, path)
          ELSE /\ watchers' = watchers
               /\ paths' = P1
               /\ emitted' = <<Minus(path, paths[path])>>

\* Lines 134-176: statAsync(full) has settled for the shifted entry.
DrainStat ==
  /\ dpc = "stat"
  /\ LET full == cur
         path == Slice(full)
         stats == Stat(full)
     IN IF stats # "none" /\ EnqueueRejects(path, stats)
        THEN \* line 137: continue
             /\ DrainNext(queue)
             /\ emitted' = <<>>
             /\ thrown' = ""
             /\ UNCHANGED <<paths, watchers, tasks, walk>>
        ELSE IF ~thisPaths
        THEN \* this.paths is undefined: lines 139 and 154 throw a TypeError
             /\ dpc' = "dead"
             /\ thrown' = "TypeError"
             /\ emitted' = <<>>
             /\ UNCHANGED <<queue, isProcessing, cur, paths, watchers, tasks, walk>>
        ELSE IF stats # "none"
        THEN /\ paths' = [paths EXCEPT ![path] = stats]
             /\ emitted' = IF NotRoot(path)
                           THEN <<Plus(path, stats, paths[path] = "none")>> ELSE <<>>
             /\ thrown' = ""
             /\ IF stats = "dir" /\ watchers[path] = "none"
                THEN \* line 147: await this[_recurse](full)
                     /\ tasks' = tasks \cup {[full |-> full, pc |-> "stat"]}
                     /\ walk' = "drain"
                     /\ dpc' = "recurse"
                     /\ UNCHANGED <<queue, isProcessing, cur, watchers>>
                ELSE /\ DrainNext(queue)
                     /\ UNCHANGED <<watchers, tasks, walk>>
        ELSE /\ Removed(path)
             /\ thrown' = ""
             /\ DrainNext(queue)
             /\ UNCHANGED <<tasks, walk>>
  /\ called' = ""
  /\ UNCHANGED <<config, disk, ops, timeouts, timers, isInitStarted, isClosed, thisPaths,
                 changedAfterClose>>

----------------------------------------------------------------------------
\* The public methods

\* An init() without the guard of line 64.
InitGuard_never == FALSE

\* Line 64
InitGuard == isInitStarted

\* Lines 63-68: init()
CallInit ==
  /\ called' = "init"
  /\ emitted' = <<>>
  /\ IF InitGuard
     THEN /\ thrown' = "cannot call init() twice"
          /\ UNCHANGED <<isInitStarted, tasks, walk>>
     ELSE /\ thrown' = ""
          /\ isInitStarted' = TRUE
          /\ tasks' = tasks \cup {[full |-> Dir, pc |-> "stat"]}
          /\ walk' = "init"
  /\ UNCHANGED <<config, disk, ops, paths, watchers, timeouts, timers, drain, isClosed,
                 thisPaths, changedAfterClose>>

\* Lines 74 and 77
CloseGuard == IF ~thisPaths THEN "cannot call close() before init() finishes"
              ELSE IF isClosed THEN "cannot call close() twice" ELSE ""

\* Lines 73-84: close()
CallClose ==
  /\ called' = "close"
  /\ emitted' = <<>>
  /\ thrown' = CloseGuard
  /\ IF CloseGuard # ""
     THEN UNCHANGED <<isClosed, watchers>>
     ELSE /\ isClosed' = TRUE
          /\ watchers' = [k \in Keys |-> IF watchers[k] = "none" THEN "none" ELSE "closed"]
  /\ UNCHANGED <<config, disk, ops, paths, timeouts, timers, drain, isInitStarted,
                 thisPaths, tasks, walk, changedAfterClose>>

----------------------------------------------------------------------------
\* The file tree changes under the watcher (fs.watch, line 100).  Every
\* change of an entry is reported, once, to the open watch of the directory
\* that holds it.  A watch follows the directory it was opened on: once that
\* directory is removed the handle stays open but delivers nothing more
\* ("stale"), also when a new directory takes the same path.

Touched(S) ==
  /\ ops' = ops + 1
  /\ changedAfterClose' = IF isClosed THEN changedAfterClose \cup {Slice(g) : g \in S}
                          ELSE changedAfterClose
  /\ emitted' = <<>>
  /\ thrown' = ""
  /\ called' = ""
  /\ UNCHANGED <<config, paths, drain, isInitStarted, isClosed, thisPaths, tasks, walk>>

\* An entry appears: a file, or a directory renamed into place with the
\* files `kids` already in it.
Create(f, type, kids) ==
  /\ isInitStarted
  /\ ops < MaxDiskOps
  /\ disk[f] = "none"
  /\ IsDir(disk, ParentOf(f))
  /\ type = "file" => kids = {}
  /\ type = "dir" => f \in DirFulls
  /\ disk' = [g \in Fulls |-> IF g = f THEN type ELSE IF g \in kids THEN "file" ELSE disk[g]]
  /\ Notify({f})
  /\ UNCHANGED watchers
  /\ Touched({f} \cup kids)

\* An entry disappears with everything in it: removed entry by entry
\* (each removal reported to the watch of its directory), or renamed away
\* (only the entry itself reported).
Remove(f, each) ==
  /\ isInitStarted
  /\ ops < MaxDiskOps
  /\ disk[f] # "none"
  /\ LET gone == {f} \cup {g \in Below(f) : disk[g] # "none"}
     IN /\ each => gone # {f}
        /\ disk' = [g \in Fulls |-> IF g \in gone THEN "none" ELSE disk[g]]
        /\ Notify(IF each THEN gone ELSE {f})
        /\ watchers' = [k \in Keys |->
              IF watchers[k] = "open" /\ \E g \in gone : k = Slice(g)
              THEN "stale" ELSE watchers[k]]
        /\ Touched(gone)

\* An entry is written to, or its metadata changes.
Modify(f) ==
  /\ isInitStarted
  /\ ops < MaxDiskOps
  /\ disk[f] # "none"
  /\ Notified({f}) # {}
  /\ Notify({f})
  /\ UNCHANGED <<disk, watchers>>
  /\ Touched({f})

----------------------------------------------------------------------------
\* Lines 24-60: the constructor, on any tree.
Init ==
  /\ watchOpt \in BOOLEAN
  /\ filterOpt \in {"none", "test"}
  /\ disk \in InitTrees
  /\ ops = 0
  /\ paths = [k \in Keys |-> "none"]
  /\ watchers = [k \in Keys |-> "none"]
  /\ timeouts = {}
  /\ timers = [f \in Fulls |-> 0]
  /\ queue = <<>>
  /\ isProcessing = FALSE
  /\ isInitStarted = FALSE
  /\ isClosed = FALSE
  /\ thisPaths = FALSE
  /\ tasks = {}
  /\ walk = "none"
  /\ dpc = "idle"
  /\ cur = <<>>
  /\ emitted = <<>>
  /\ thrown = ""
  /\ called = ""
  /\ changedAfterClose = {}

Next ==
  \/ CallInit
  \/ CallClose
  \/ \E t \in tasks : RecStat(t)
  \/ \E t \in tasks : RecReaddir(t)
  \/ \E f \in Fulls : TimerFire(f)
  \/ DrainStat
  \/ \E f \in Fulls, type \in Types :
       \E kids \in SUBSET ChildrenOf(f) : Create(f, type, kids)
  \/ \E f \in Fulls, each \in BOOLEAN : Remove(f, each)
  \/ \E f \in Fulls : Modify(f)

Spec == Init /\ [][Next]_vars

----------------------------------------------------------------------------
\* What the claims speak of

\* The absolute path of a relative path.
FullOf(path) == Join(Dir, path)

\* The inclusion filter as configured: does it accept the path with these stats?
Accepts(path, stats) == filterOpt = "none" \/ TestFilter(path, stats)

\* The entry is on disk and passes the filter, and so does every directory
\* between it and the root.
RECURSIVE Included(_)
Included(f) ==
  /\ disk[f] # "none"
  /\ Accepts(Slice(f), disk[f])
  /\ ParentOf(f) = Dir \/ Included(ParentOf(f))

\* The Snapshot Table the tree on disk calls for.
Expected == [k \in Keys |-> IF k # <<>> /\ Included(FullOf(k)) THEN disk[FullOf(k)] ELSE "none"]

KeySet(tbl) == {k \in Keys : tbl[k] # "none"}

NoTimers == \A f \in Fulls : timers[f] = 0

\* Nothing is pending: no queue entry, no timer, no drain loop, no walk.
Quiescent == queue = <<>> /\ NoTimers /\ ~isProcessing /\ tasks = {}

----------------------------------------------------------------------------
\* C1: at every quiescent state after init() has completed, the keys of the
\* Snapshot Table are exactly the paths on disk below the root that pass the
\* filter together with all their ancestors, while the instance is watching
\* (watch enabled, not closed).  Every change of an entry of a directory with
\* a delivering watch is notified in this model.
C1_SnapshotMatchesDisk ==
  (watchOpt /\ thisPaths /\ ~isClosed /\ Quiescent) => KeySet(paths) = KeySet(Expected)

\* C2: after init() completes on a tree that did not change, the Snapshot
\* Table holds exactly the entries on disk that pass the filter with all their
\* ancestors, each with its type on disk; the root has no entry and nothing
\* under a rejected directory has one.
C2_InitEnumerates == (thisPaths /\ ops = 0) => paths = Expected

\* C2's case: init() has completed on an unchanged tree that holds a tracked
\* directory with a file in it and a rejected directory with a file in it.
C2_Witness ==
  /\ thisPaths /\ ops = 0 /\ filterOpt = "test"
  /\ paths[NameA] = "dir" /\ paths[Join(NameA, NameX)] = "file"
  /\ disk[FullOf(NameAS)] = "dir" /\ disk[FullOf(Join(NameAS, NameX))] = "file"
  /\ paths[NameAS] = "none" /\ paths[Join(NameAS, NameX)] = "none"

\* C9: the drain loop handles no queue entry before init() has completed.
C9_NoDrainBeforeInit == dpc # "idle" => thisPaths

\* The relative paths nested under path (path + '/' is a prefix).
Under(path) == {k \in Keys : StartsWith(k, path \o Sep)}

\* The number of times x occurs in the sequence q.
Count(q, x) == Cardinality({i \in 1..Len(q) : q[i] = x})

\* The sequence evs holds each event of the set E once and nothing else.
OneEach(evs, E) ==
  /\ Len(evs) = Cardinality(E)
  /\ \A e \in E : Count(evs, e) = 1

\* C3: a burst of notifications for one path leaves at most one outstanding
\* timer for it at any moment; the expiry of the timer enqueues the path once
\* and leaves no timer for it; and when the drain loop handles the entry of a
\* tracked file that still exists, it emits exactly one '+' event, isNew false.
C3_DebounceCollapse ==
  /\ [](\A f \in Fulls : timers[f] <= 1)
  /\ [][\A f \in Fulls : TimerFire(f) =>
          /\ timers'[f] = 0
          /\ Count(<<cur'>> \o queue', f) = Count(<<cur>> \o queue, f) + 1]_vars
  /\ [][(DrainStat /\ paths[Slice(cur)] = "file" /\ disk[cur] = "file") =>
          emitted' = <<Plus(Slice(cur), "file", FALSE)>>]_vars

\* C4: when the drain loop handles the entry of a tracked directory that is
\* gone from disk with everything in it, it emits exactly one '-' event for
\* the directory and one for each tracked path under it, and none of them
\* stays in the Snapshot Table; a '-' event is only ever emitted for a tracked
\* path, which it removes, so no path gets two in a row.
C4_DeletionCascade ==
  /\ [][(DrainStat /\ paths[Slice(cur)] = "dir" /\ disk[cur] = "none") =>
          LET gone == {Slice(cur)} \cup (Under(Slice(cur)) \cap KeySet(paths))
          IN /\ OneEach(emitted', {Minus(k, paths[k]) : k \in gone})
             /\ \A k \in gone : paths'[k] = "none"]_vars
  /\ [][DrainStat => \A i \in 1..Len(emitted') :
          emitted'[i].kind = "-" =>
            /\ paths[emitted'[i].path] # "none"
            /\ paths'[emitted'[i].path] = "none"
            /\ Count(emitted', emitted'[i]) = 1]_vars

\* C5: when the drain loop handles the entry of a directory that appeared,
\* untracked and unwatched, it emits exactly one '+' event with isNew true for
\* it; when the walk of that directory ends it emits exactly one '+' event
\* with isNew true for every entry recorded under it; and the entry of a path
\* that is tracked already never gets a '+' event with isNew true.
C5_CreationCascade ==
  /\ [][(DrainStat /\ disk[cur] = "dir" /\ Accepts(Slice(cur), "dir")
           /\ paths[Slice(cur)] = "none" /\ watchers[Slice(cur)] = "none") =>
          emitted' = <<Plus(Slice(cur), "dir", TRUE)>>]_vars
  /\ [][(walk = "drain" /\ walk' = "none") =>
          OneEach(emitted', {Plus(k, paths'[k], TRUE) :
                               k \in Under(Slice(cur)) \cap KeySet(paths')})]_vars
  /\ [][DrainStat => \A i \in 1..Len(emitted') :
          (emitted'[i].kind = "+" /\ emitted'[i].isNew) =>
            paths[emitted'[i].path] = "none"]_vars

\* C6: no event is ever emitted for a path the filter rejects, nor for a path
\* under a directory the filter rejects; a rejected directory is never
\* watched and never listed.
C6_FilterExclusion ==
  /\ \A i \in 1..Len(emitted) :
       /\ Accepts(emitted[i].path, emitted[i].stats)
       /\ \A k \in Keys \ {<<>>} : emitted[i].path \in Under(k) => Accepts(k, "dir")
  /\ \A k \in Keys \ {<<>>} : ~Accepts(k, "dir") =>
       /\ watchers[k] = "none"
       /\ \A t \in tasks : t.full # FullOf(k) \/ t.pc = "stat"
       /\ \A t \in tasks : ~StartsWith(t.full, FullOf(k) \o Sep)

\* C6's case: with the filter of the tests, a rejected directory with a file
\* in it is on disk while the drain loop emits an event for a change.
C6_Witness ==
  /\ filterOpt = "test" /\ thisPaths /\ ops >= 1
  /\ disk[FullOf(NameAS)] = "dir" /\ disk[FullOf(Join(NameAS, NameX))] = "file"
  /\ ~isClosed /\ emitted # <<>>

\* C7: after close() has returned, no event is emitted for a path that
\* changed on disk after the close.
C7_NoEventsAfterClose ==
  isClosed => \A i \in 1..Len(emitted) : emitted[i].path \notin changedAfterClose

\* The instance's tables.
tables == <<paths, watchers, timeouts, timers, queue, tasks>>

\* C8: init() is rejected once init() was called, and the walk from the root
\* starts once; close() is rejected before init() has completed and after a
\* close(), so it takes effect once and only after a completed init(); a
\* rejected call changes no table and closes no watch; this.paths is assigned
\* only when the walk that init() awaits has ended without an error.
C8_LifecycleGuards ==
  /\ [][(called' = "init" /\ isInitStarted) =>
          thrown' = "cannot call init() twice" /\ UNCHANGED tables]_vars
  /\ [][(called' = "init" /\ ~isInitStarted) => thrown' = "" /\ isInitStarted']_vars
  /\ [][(walk' = "init" /\ walk # "init") => ~isInitStarted]_vars
  /\ [][(called' = "close" /\ ~thisPaths) =>
          thrown' = "cannot call close() before init() finishes"
          /\ UNCHANGED tables /\ UNCHANGED isClosed]_vars
  /\ [][(called' = "close" /\ isClosed) =>
          thrown' = "cannot call close() twice" /\ UNCHANGED tables]_vars
  /\ [][(isClosed' /\ ~isClosed) => thisPaths /\ called' = "close" /\ thrown' = ""]_vars
  /\ [][isClosed => isClosed']_vars
  /\ [][(thisPaths' /\ ~thisPaths) => walk = "init" /\ tasks' = {} /\ thrown' = ""]_vars
  /\ [](thisPaths => isInitStarted)

\* C8's case: close() is called a second time and is rejected.
C8_Witness == isClosed /\ called = "close" /\ thrown = "cannot call close() twice"

\* C10: with watch = false no watch is registered, no timer or queue entry is
\* created and no event is emitted, whatever changes on disk; init() still
\* fills the Snapshot Table from the tree.
C10_NoWatchMode ==
  ~watchOpt =>
    /\ \A k \in Keys : watchers[k] = "none"
    /\ timeouts = {} /\ NoTimers /\ queue = <<>> /\ dpc = "idle"
    /\ emitted = <<>>
    /\ (thisPaths /\ ops = 0) => paths = Expected

\* C10's case: watch = false, init() has completed on a tree with entries,
\* and the tree has changed since.
C10_Witness ==
  /\ ~watchOpt /\ thisPaths /\ ops >= 1
  /\ KeySet(paths) # {} /\ paths # Expected

\* C11: no stat failure hit while the drain loop reconciles an entry surfaces
\* as an error: the walk of a newly discovered directory that fails does not
\* reject _enqueue, and the drain loop goes on to the next entry.
C11_StatFailureNotSurfaced ==
  [][walk = "drain" => (thrown' # "_enqueue rejected" /\ dpc' # "dead")]_vars

\* The drain loop is between entries: idle, or awaiting the stat of the entry
\* it has just shifted, with no walk running.
BetweenEntries == dpc \in {"idle", "stat"} /\ tasks = {}

\* C12: with watching enabled, after init() has completed and while the drain
\* loop is between entries, the Watch Table has an entry for a path exactly
\* when the path is the root or a key of the Snapshot Table recorded as a
\* directory.
C12_WatchTableInvariant ==
  (watchOpt /\ thisPaths /\ BetweenEntries) =>
    \A k \in Keys : watchers[k] # "none" <=> (k = <<>> \/ paths[k] = "dir")

\* C13: at most one drain loop is active at any time: the in-progress flag is
\* set exactly while a loop is active, a loop starts only when none is
\* active, and a timer expiry that arrives while a loop is running appends
\* its path to the Pending Queue and touches neither the loop nor the
\* Snapshot or Watch Table.
C13_SingleFlight ==
  /\ [](isProcessing <=> dpc # "idle")
  /\ [][\A f \in Fulls : (TimerFire(f) /\ dpc # "idle") =>
          /\ queue' = Append(queue, f)
          /\ UNCHANGED <<paths, watchers, isProcessing, dpc, cur, tasks, walk>>]_vars
  /\ [][\A f \in Fulls : (TimerFire(f) /\ dpc' # dpc) => dpc = "idle" /\ dpc' = "stat"]_vars

\* C13's case: a timer has expired while the drain loop was suspended in the
\* walk of a new directory, and its path waits in the Pending Queue.
C13_Witness ==
  /\ thisPaths /\ isProcessing /\ dpc = "recurse" /\ tasks # {}
  /\ queue # <<>>

----------------------------------------------------------------------------
\* The host's event loop runs every expired timer and the continuation of
\* every settled promise: timers fire, stats and listings settle.
FairSpec ==
  /\ Spec
  /\ WF_vars(\E f \in Fulls : TimerFire(f))
  /\ WF_vars(DrainStat)
  /\ WF_vars(\E t \in tasks : RecStat(t))
  /\ WF_vars(\E t \in tasks : RecReaddir(t))

\* C14: every path appended to the Pending Queue is eventually shifted by the
\* drain loop, and a drain loop that is active eventually ends with the
\* in-progress flag cleared, so that a later enqueue starts a new loop.
C14_ReconcilerLiveness ==
  /\ \A f \in Fulls : (\E i \in 1..Len(queue) : queue[i] = f) ~> (cur = f)
  /\ isProcessing ~> (~isProcessing /\ dpc = "idle")

----------------------------------------------------------------------------
\* C15: the events agree with the Snapshot Table as it was before the
\* reconciliation step that emits them.  A step of the drain loop emits '+'
\* with isNew true only for a path that was no key, '+' with isNew false only
\* for a path that was a key, and '-' only for a path that was a key and is
\* none afterwards; a vanished path that is in neither table emits nothing.
\* When the step walks a new directory, no path under it was a key before, and
\* the events at the end of the walk, isNew true, are for keys under it.
C15_EventClassification ==
  /\ [][DrainStat => \A i \in 1..Len(emitted') :
          LET e == emitted'[i]
          IN IF e.kind = "+"
             THEN e.isNew <=> paths[e.path] = "none"
             ELSE paths[e.path] # "none" /\ paths'[e.path] = "none"]_vars
  /\ [][(DrainStat /\ disk[cur] = "none" /\ paths[Slice(cur)] = "none") =>
          emitted' = <<>> /\ UNCHANGED <<paths, watchers>>]_vars
  /\ [][(DrainStat /\ dpc' = "recurse") =>
          \A k \in Under(Slice(cur)) : paths[k] = "none"]_vars
  /\ [][(walk = "drain" /\ walk' = "none") => \A i \in 1..Len(emitted') :
          LET e == emitted'[i]
          IN e.kind = "+" /\ e.isNew /\ e.path \in Under(Slice(cur))
             /\ paths'[e.path] = e.stats]_vars
  /\ [][(emitted' # <<>>) => (DrainStat \/ (walk = "drain" /\ walk' = "none"))]_vars

----------------------------------------------------------------------------
\* C16: a watch handle is closed exactly when its entry leaves the Watch
\* Table: no entry of the table holds a closed handle, in any reachable state,
\* and so no step closes a handle that is closed already.
C16_ClosedIffRemoved ==
  /\ [](\A k \in Keys : watchers[k] # "closed")
  /\ [][\A k \in Keys : (watchers[k] = "closed" /\ watchers'[k] = "none") => FALSE]_vars

----------------------------------------------------------------------------
\* Key k lies inside directory p: p, a separator, and something more.
Nested(k, p) == Len(k) > Len(p) + 1 /\ SubSeq(k, 1, Len(p) + 1) = p \o Sep

\* C17: when the drain loop has reconciled, without an exception, a path p
\* whose stat failed and which was tracked as a directory, neither table has
\* a key that is p or lies inside p (the watches at and under p were closed
\* and dropped), and every other key, also one that has p as a prefix without
\* the separator, keeps its entries.
C17_RemovalPostcondition ==
  [][(DrainStat /\ thrown' = "" /\ disk[cur] = "none" /\ paths[Slice(cur)] = "dir") =>
       LET p == Slice(cur)
       IN \A k \in Keys :
            IF k = p \/ Nested(k, p)
            THEN paths'[k] = "none" /\ watchers'[k] = "none"
            ELSE paths'[k] = paths[k] /\ watchers'[k] = watchers[k]]_vars

\* C17's case: the tracked directory a, with a file in it, is gone and has
\* just been reconciled, while the directory as is tracked and watched.
C17_Witness ==
  /\ thisPaths /\ Len(emitted) = 2 /\ emitted[1] = Minus(NameA, "dir")
  /\ paths[NameA] = "none" /\ watchers[NameA] = "none"
  /\ paths[NameAS] = "dir" /\ watchers[NameAS] = "open"

----------------------------------------------------------------------------
\* init() has failed: the walk it awaited has rejected, and this.paths was
\* never assigned.
InitFailed == isInitStarted /\ ~thisPaths /\ walk = "zombie"

\* C18: a stat or listing that fails during init() makes init() fail, paths
\* is never exposed afterwards, and the walk is over: once init() has failed
\* no _recurse call registers a further watch or writes a further entry of
\* the Snapshot Table.
C18_InitFailureAborts ==
  /\ [][(walk = "init" /\ \E t \in tasks : (RecStat(t) \/ RecReaddir(t)) /\ Stat(t.full) = "none")
          => thrown' = "init rejected" /\ InitFailed']_vars
  /\ [][InitFailed => InitFailed']_vars
  /\ [][InitFailed =>
          /\ paths' = paths
          /\ \A k \in Keys : watchers'[k] = "open" => watchers[k] # "none"]_vars

----------------------------------------------------------------------------
\* C19: after close() has returned no watch handle of the instance is open,
\* and none is registered again.
C19_NoWatchAfterClose ==
  isClosed => \A k \in Keys : watchers[k] \notin {"open", "stale"}

----------------------------------------------------------------------------
\* C20: a failed init() leaks no watch: whenever init() has failed and a
\* watch it registered is open, a public call that leads to the release of
\* the watches is accepted, a close() or a retried init().  (Once init() has
\* failed, rejected calls change nothing, so a sequence of calls releases the
\* watches only if one of the two is accepted in that state.)
C20_NoLeakAfterFailedInit ==
  (InitFailed /\ \E k \in Keys : watchers[k] \in {"open", "stale"}) =>
    (CloseGuard = "" \/ ~InitGuard)

====
